---- MODULE Spec2Model ----
(***************************************************************************)
(* The control plane of the tunnel server: src/server/control_server.rs    *)
(* (handshake, per-client reader and tunnel tasks, stream init) over the   *)
(* process-wide registries of src/server/main.rs.                          *)
(*                                                                         *)
(* A control connection is a slot k in Conns.  Each await of the source is *)
(* a suspension point; the code between two awaits is one action.          *)
(***************************************************************************)
EXTENDS Integers, Sequences, FiniteSets, TLC

\* ------------------------------------------------------------------ bounds
MaxConns    == 2   \* control connections ever upgraded
MaxLen      == 2   \* length of a requested subdomain (SpecHello)
MaxFrames   == 1   \* non-empty frames one client sends once connected
RaceStreams == 1   \* visitor connections accepted (Spec)
RaceChunks  == 1   \* chunks a visitor sends on one stream (Spec)
MaxStreams  == 2   \* visitor connections accepted (SpecTunnel)
MaxChunks   == 2   \* chunks a visitor sends on one stream (SpecTunnel)
ReaderFrames == 3  \* non-empty frames one client sends (SpecReader)

Conns     == 1..MaxConns
StreamIds == 1..(IF MaxStreams > RaceStreams THEN MaxStreams ELSE RaceStreams)
ClientIds == {"A", "B"}

\* ----------------------------------------------------------------- strings
\* A string is a sequence of characters; a character is named by a string.
\* "U+00E9" is a non-ASCII lowercase letter, "Z" an uppercase ASCII letter.
Alphabet == {"a", "Z", "7", "-", "U+00E9"}

\* char::to_lowercase, per character
ToLowerChar(c) == IF c = "Z" THEN "z" ELSE c

\* str::to_lowercase
ToLowercase(s) == [i \in 1..Len(s) |-> ToLowerChar(s[i])]

\* char::is_alphanumeric (Unicode Alphabetic or Numeric)
IsAlphanumeric(c) == c \in {"a", "z", "Z", "7", "U+00E9"}

\* sub_domain.chars().filter(|c| !c.is_alphanumeric()).count()
CountNonAlphanumeric(s) == Cardinality({i \in 1..Len(s) : ~IsAlphanumeric(s[i])})

\* Option<String>
NoneStr   == [some |-> FALSE, s |-> <<>>]
SomeStr(s) == [some |-> TRUE, s |-> s]

RECURSIVE StringsUpTo(_)
StringsUpTo(n) ==
    IF n = 0 THEN {<<>>}
    ELSE LET shorter == StringsUpTo(n - 1)
         IN  shorter \cup {Append(s, c) : s \in {t \in shorter : Len(t) = n - 1},
                                           c \in Alphabet}

\* The result of ClientHello::verify on the first frame: Err, or Ok(ch).
Hello(ok, id, sub, anon) == [ok |-> ok, id |-> id, sub |-> sub, anon |-> anon]
BadHello == Hello(FALSE, "A", NoneStr, FALSE)
NoHello  == Hello(FALSE, "A", NoneStr, TRUE)

HellosOver(names) ==
    {BadHello} \cup
    {Hello(TRUE, id, sub, anon) :
        id \in ClientIds, sub \in {NoneStr} \cup {SomeStr(n) : n \in names},
        anon \in BOOLEAN}

\* The hellos of the concurrent specification: both clients ask for "a".
Hellos == {Hello(TRUE, id, SomeStr(<<"a">>), FALSE) : id \in ClientIds}

\* The hellos of the handshake specification: every name up to MaxLen.
AllHellos == HellosOver(StringsUpTo(MaxLen))

\* ------------------------------------------------------------------- state
VARIABLES
    hs,       \* hs[k]: where handle_new_connection of connection k stands
    link,     \* link[k]: the websocket of connection k, "up" or "down"
    hello,    \* hello[k]: client_hello while try_client_handshake holds it
    reply,    \* reply[k]: the ServerHello being written
    cid,      \* cid[k]: client_id returned by the handshake
    sub,      \* sub[k]: sub_domain returned by the handshake
    clients,  \* CONNECTIONS: ClientId -> ConnectedClient
    hosts,    \* CONNECTIONS: SubDomain -> ClientId
    reader,   \* reader[k]: process_client_messages: "none", "run", "done"
    tunnel,   \* tunnel[k]: tunnel_client: "none", "run", "done"
    queue,    \* queue[k]: the unbounded channel behind ConnectedClient.tx
    qopen,    \* qopen[k]: the channel accepts sends
    wire,     \* wire[k]: what the server has written on the websocket
    sent,     \* sent[k]: every packet queue[k] has accepted, in order
    pings,    \* pings[k]: delayed Ping tasks spawned and not yet run
    frames,   \* frames[k]: non-empty frames read by the reader
    removes,  \* removes[k]: 1 once Connections::remove was called for client k
    adds,     \* the connections in the order Connections::add took them
    seen,     \* seen[k]: the adds made when the handshake of k read the registry
    raced,    \* a handshake added its client after a registry it read grew
    streams,  \* ACTIVE_STREAMS: StreamId -> ActiveStream
    st,       \* st[s]: the visitor connection of stream s
    owner,    \* owner[s]: the tx of ActiveStream.client, 0 before accept
    chunks,   \* chunks[s]: chunks read from the visitor socket
    inq,      \* inq[s]: the stream's inbound queue of StreamMessages
    iopen,    \* iopen[s]: the receiver of the stream's inbound queue is alive
    tally     \* tally[k]: the frames the reader of k skipped, took as Ping, dropped

vars == <<hs, link, hello, reply, cid, sub, clients, hosts, reader, tunnel,
          queue, qopen, wire, sent, pings, frames, removes, adds,
          seen, raced, streams, st, owner, chunks, inq, iopen, tally>>

streamVars == <<adds, seen, raced, streams, st, owner, chunks, inq, iopen,
                tally>>

\* ---------------------------------------------------------------- messages
\* One frame written on a websocket, or one packet on a queue: the tag, the
\* subdomain of a ServerHello::Success, the stream id and the chunk of a packet.
Msg(t, name, s, d) == [t |-> t, sub |-> name, s |-> s, d |-> d]

Success(name)    == Msg("Success", name, 0, 0)
SubDomainInUse   == Msg("SubDomainInUse", <<>>, 0, 0)
InvalidSubDomain == Msg("InvalidSubDomain", <<>>, 0, 0)
AuthFailed       == Msg("AuthFailed", <<>>, 0, 0)
NoReply          == Msg("none", <<>>, 0, 0)

PktInit(s)    == Msg("Init", <<>>, s, 0)
PktData(s, d) == Msg("Data", <<>>, s, d)
PktRefused(s) == Msg("Refused", <<>>, s, 0)
PktEnd(s)     == Msg("End", <<>>, s, 0)
PktPing       == Msg("Ping", <<>>, 0, 0)

ServerHelloTags == {"Success", "SubDomainInUse", "InvalidSubDomain", "AuthFailed"}
PacketTags      == {"Init", "Data", "Refused", "End", "Ping"}

\* ---------------------------------------------------------------- registry
\* ConnectedClient { id, host, tx }: tx names the queue of connection k.
ConnectedClient(id, host, k) == [id |-> id, host |-> host, tx |-> k]

Client(k) == ConnectedClient(cid[k], sub[k], k)

\* Connections::client_for_host
client_for_host(host) == IF host \in DOMAIN hosts THEN hosts[host] ELSE "none"

\* Connections::add: overwrites the entry of the ClientId and of the subdomain.
AddClient(c) ==
    /\ clients' = [i \in DOMAIN clients \cup {c.id} |->
                      IF i = c.id THEN c ELSE clients[i]]
    /\ hosts' = [h \in DOMAIN hosts \cup {c.host} |->
                      IF h = c.host THEN c.id ELSE hosts[h]]

\* Connections::remove: keyed by ClientId; the subdomain entry goes iff it
\* still holds this client's id; the client's queue is closed with it.
RemoveClient(c) ==
    /\ clients' = [i \in DOMAIN clients \ {c.id} |-> clients[i]]
    /\ hosts' = IF client_for_host(c.host) = c.id
                THEN [h \in DOMAIN hosts \ {c.host} |-> hosts[h]]
                ELSE hosts
    /\ qopen' = [qopen EXCEPT ![c.tx] = FALSE]
    /\ removes' = [removes EXCEPT ![c.tx] = 1]

\* ServerHello::random_domain and ::prefixed_random_domain: a fresh random
\* name; connection k draws the k-th one.
RandomChars == <<"r1", "r2", "r3", "r4">>
RandomChar(k) == RandomChars[k]
random_domain(k) == <<RandomChar(k)>>
prefixed_random_domain(prefix, k) == prefix \o <<"-", RandomChar(k)>>

\* --------------------------------------------------------------- handshake
\* control_server.rs:62: the requested name holds a non-alphanumeric character
HasInvalidChar(name) == CountNonAlphanumeric(name) > 0

InUseByAny(existing, id) == existing # "none"

InUseByOtherInverted(existing, id) == existing # "none" /\ id = existing

\* control_server.rs:74
InUseByOther(existing, id) == existing # "none" /\ id # existing

AssignIgnoringAnonymous(ch, name, k) ==
    IF InUseByOther(client_for_host(name), ch.id)
    THEN SubDomainInUse
    ELSE Success(name)

\* control_server.rs:70-82: the subdomain of a legal request
AssignSubDomain(ch, name, k) ==
    IF ch.anon
    THEN Success(prefixed_random_domain(name, k))
    ELSE IF InUseByOther(client_for_host(name), ch.id)
         THEN SubDomainInUse
         ELSE Success(name)

\* control_server.rs:51-95: the ServerHello try_client_handshake decides on
ServerHelloFor(ch, k) ==
    IF ~ch.ok THEN AuthFailed
    ELSE IF ~ch.sub.some THEN Success(random_domain(k))
    ELSE LET sub_domain == ToLowercase(ch.sub.s)
         IN  IF HasInvalidChar(sub_domain)
             THEN InvalidSubDomain
             ELSE AssignSubDomain(ch, sub_domain, k)

\* warp upgrades /wormhole and runs handle_new_connection
Connect(k) ==
    /\ hs[k] = "idle"
    /\ \A j \in Conns : j < k => hs[j] # "idle"
    /\ hs' = [hs EXCEPT ![k] = "hello"]
    /\ link' = [link EXCEPT ![k] = "up"]
    /\ UNCHANGED <<hello, reply, cid, sub, clients, hosts, reader, tunnel,
                   queue, qopen, wire, sent, pings, frames, removes, streamVars>>

\* The peer or the network ends the websocket of connection k.
LinkDrop(k) ==
    /\ link[k] = "up"
    /\ hs[k] # "idle"
    /\ link' = [link EXCEPT ![k] = "down"]
    /\ UNCHANGED <<hs, hello, reply, cid, sub, clients, hosts, reader, tunnel,
                   queue, qopen, wire, sent, pings, frames, removes, streamVars>>

\* try_client_handshake, lines 40-95: websocket.next() returns; without a
\* frame the handshake returns None, otherwise it starts writing a ServerHello.
ClientHelloArrives(k, offered) ==
    /\ hs[k] = "hello"
    /\ IF link[k] = "down"
       THEN /\ hs' = [hs EXCEPT ![k] = "closed"]
            /\ UNCHANGED <<hello, reply, seen>>
       ELSE \E ch \in offered :
            /\ hs' = [hs EXCEPT ![k] = "reply"]
            /\ hello' = [hello EXCEPT ![k] = ch]
            /\ reply' = [reply EXCEPT ![k] = ServerHelloFor(ch, k)]
            /\ seen' = [seen EXCEPT ![k] = Len(adds)]
    /\ UNCHANGED <<link, cid, sub, clients, hosts, reader, tunnel,
                   queue, qopen, wire, sent, pings, frames, removes, adds,
                   raced, streams, st, owner, chunks, inq, iopen,
                   tally>>

HandshakeSucceedsUnwritten(k) == reply[k].t = "Success"

HandshakeSucceedsOnAnyReply(k) == link[k] = "up"

\* control_server.rs:98-106: Success was the reply and its write succeeded
HandshakeSucceeds(k) == reply[k].t = "Success" /\ link[k] = "up"

\* try_client_handshake, lines 64-66, 76-78, 91-93, 98-106, and
\* handle_new_connection, lines 16-35: the write of the ServerHello ends.
\* Only Success, written, goes on to Connections::add and the two tasks.
ServerHelloWritten(k) ==
    /\ hs[k] = "reply"
    /\ wire' = [wire EXCEPT ![k] =
                   IF link[k] = "up" THEN Append(@, reply[k]) ELSE @]
    /\ hello' = [hello EXCEPT ![k] = NoHello]
    /\ reply' = [reply EXCEPT ![k] = NoReply]
    /\ IF HandshakeSucceeds(k)
       THEN /\ hs' = [hs EXCEPT ![k] = "connected"]
            /\ cid' = [cid EXCEPT ![k] = hello[k].id]
            /\ sub' = [sub EXCEPT ![k] = reply[k].sub]
            /\ AddClient(ConnectedClient(hello[k].id, reply[k].sub, k))
            /\ adds' = Append(adds, k)
            /\ raced' = (raced \/ seen[k] # Len(adds))
            /\ qopen' = [qopen EXCEPT ![k] = TRUE]
            /\ tunnel' = [tunnel EXCEPT ![k] = "run"]
            /\ reader' = [reader EXCEPT ![k] = "run"]
            /\ UNCHANGED link
       ELSE /\ hs' = [hs EXCEPT ![k] = "closed"]
            /\ link' = [link EXCEPT ![k] = "down"]
            /\ UNCHANGED <<cid, sub, clients, hosts, qopen, tunnel, reader, adds,
                           raced>>
    /\ seen' = [seen EXCEPT ![k] = 0]
    /\ UNCHANGED <<queue, sent, pings, frames, removes, streams, st, owner,
                   chunks, inq, iopen,
                   tally>>

\* ------------------------------------------------------------ reader task
\* The frames a client may send once connected: one that does not decode, or
\* a ControlPacket.  A Data frame carries the number of the frame as its bytes.
ClientFrames(k) ==
    {Msg("garbage", <<>>, 0, 0), PktPing}
    \cup {PktInit(s) : s \in StreamIds} \cup {PktEnd(s) : s \in StreamIds}
    \cup {PktRefused(s) : s \in StreamIds}
    \cup {PktData(s, frames[k] + 1) : s \in StreamIds}

\* StreamMessage::Data(bytes) | StreamMessage::TunnelRefused
StreamMessage(f) == IF f.t = "Data" THEN Msg("Data", <<>>, 0, f.d)
                    ELSE Msg("TunnelRefused", <<>>, 0, 0)

ReaderEndWithoutRemove(k, cause) ==
    /\ reader[k] = "run"
    /\ IF cause = "eof" THEN link[k] = "down" ELSE link[k] = "up"
    /\ reader' = [reader EXCEPT ![k] = "done"]
    /\ UNCHANGED <<hs, link, hello, reply, cid, sub, clients, hosts, qopen,
                   removes, tunnel, queue, wire, sent, pings, frames,
                   streamVars>>

\* process_client_messages, lines 126-135: connection ended, read error
\* ("eof") or an empty frame ("empty"): remove the client and return.
ReaderEnd(k, cause) ==
    /\ reader[k] = "run"
    /\ IF cause = "eof" THEN link[k] = "down" ELSE link[k] = "up"
    /\ RemoveClient(Client(k))
    /\ reader' = [reader EXCEPT ![k] = "done"]
    /\ UNCHANGED <<hs, link, hello, reply, cid, sub, tunnel, queue, wire, sent,
                   pings, frames, streamVars>>

DispatchedAlsoInit(f) == f.t \in {"Data", "Refused", "Init"}

\* process_client_messages, lines 145-153: the packets that name a stream
\* and carry a StreamMessage for it
Dispatched(f) == f.t \in {"Data", "Refused"}

AcceptingAlways(s) == TRUE

\* process_client_messages, line 173: stream.tx.send succeeds while the
\* receiver of the stream's inbound queue is alive
Accepting(s) == iopen[s]

\* process_client_messages, lines 170-173: the frame reaches a stream: its
\* stream_id is in ACTIVE_STREAMS and the send on the stream's tx succeeds
Delivered(f) ==
    /\ Dispatched(f)
    /\ f.s \in DOMAIN streams
    /\ Accepting(streams[f.s].tx)

SendFirst(q, message) == <<message>> \o q

\* process_client_messages, line 173: stream.tx.send(message)
Send(q, message) == Append(q, message)

\* The count of the frames the reader of one client skipped (lines 137-157),
\* took as Ping (158-167), dropped for want of the stream (170-172) and
\* dropped on a failed send (173-175).
Tally(skip, ping, miss, fail) ==
    [skip |-> skip, ping |-> ping, miss |-> miss, fail |-> fail]

\* process_client_messages, lines 137-177: one non-empty frame.
ReaderFrame(k, f) ==
    /\ reader[k] = "run"
    /\ link[k] = "up"
    /\ frames' = [frames EXCEPT ![k] = @ + 1]
    /\ pings' = [pings EXCEPT ![k] = IF f.t = "Ping" THEN @ + 1 ELSE @]
    /\ inq' = IF Delivered(f)
              THEN [inq EXCEPT ![streams[f.s].tx] = Send(@, StreamMessage(f))]
              ELSE inq
    /\ tally' = [tally EXCEPT ![k] =
                    IF f.t = "Ping"
                    THEN Tally(@.skip, @.ping + 1, @.miss, @.fail)
                    ELSE IF ~Dispatched(f)
                    THEN Tally(@.skip + 1, @.ping, @.miss, @.fail)
                    ELSE IF f.s \notin DOMAIN streams
                    THEN Tally(@.skip, @.ping, @.miss + 1, @.fail)
                    ELSE IF ~Delivered(f)
                    THEN Tally(@.skip, @.ping, @.miss, @.fail + 1)
                    ELSE @]
    /\ UNCHANGED <<hs, link, hello, reply, cid, sub, clients, hosts, reader,
                   tunnel, queue, qopen, wire, sent, removes, adds, seen, raced,
                   streams, st, owner, chunks, iopen>>

PingFireDropping(k) ==
    /\ pings[k] > 0
    /\ pings' = [pings EXCEPT ![k] = @ - 1]
    /\ UNCHANGED <<hs, link, hello, reply, cid, sub, clients, hosts, reader,
                   tunnel, queue, sent, qopen, wire, frames, removes,
                   streamVars>>

\* process_client_messages, lines 161-165: a delayed task sends Ping on the
\* client's tx; the result of the send is dropped.
PingFire(k) ==
    /\ pings[k] > 0
    /\ pings' = [pings EXCEPT ![k] = @ - 1]
    /\ queue' = [queue EXCEPT ![k] = IF qopen[k] THEN Append(@, PktPing) ELSE @]
    /\ sent' = [sent EXCEPT ![k] = IF qopen[k] THEN Append(@, PktPing) ELSE @]
    /\ UNCHANGED <<hs, link, hello, reply, cid, sub, clients, hosts, reader,
                   tunnel, qopen, wire, frames, removes, streamVars>>

\* ------------------------------------------------------------ tunnel task
NewestPacket(q) == q[Len(q)]

\* tunnel_client, line 182: the packet queue.next() yields
NextPacket(q) == Head(q)

\* tunnel_client, lines 182-190: queue.next() yields a packet and the write of
\* it ends: written, or failed, and then the client is removed and the
\* receiver dropped with the task.
TunnelWrite(k) ==
    /\ tunnel[k] = "run"
    /\ queue[k] # <<>>
    /\ IF link[k] = "up"
       THEN /\ wire' = [wire EXCEPT ![k] = Append(@, NextPacket(queue[k]))]
            /\ queue' = [queue EXCEPT ![k] = Tail(@)]
            /\ UNCHANGED <<tunnel, clients, hosts, qopen, removes>>
       ELSE /\ RemoveClient(Client(k))
            /\ tunnel' = [tunnel EXCEPT ![k] = "done"]
            /\ queue' = [queue EXCEPT ![k] = <<>>]
            /\ UNCHANGED wire
    /\ UNCHANGED <<hs, link, hello, reply, cid, sub, reader, sent, pings,
                   frames, streamVars>>

\* tunnel_client, lines 191-194: queue.next() yields None: the channel is
\* closed and drained.
TunnelClosed(k) ==
    /\ tunnel[k] = "run"
    /\ queue[k] = <<>>
    /\ ~qopen[k]
    /\ tunnel' = [tunnel EXCEPT ![k] = "done"]
    /\ UNCHANGED <<hs, link, hello, reply, cid, sub, clients, hosts, reader,
                   queue, qopen, wire, sent, pings, frames, removes, streamVars>>

\* ----------------------------------------------------------------- streams
\* ActiveStream { id, client, tx }: tx names the inbound queue of stream s.
ActiveStream(s, client) == [id |-> s, client |-> client, tx |-> s]

\* tx.send(packet) on the queue of connection k: accepted while it is open
Enqueue(k, packet) ==
    /\ queue' = [queue EXCEPT ![k] = IF qopen[k] THEN Append(@, packet) ELSE @]
    /\ sent' = [sent EXCEPT ![k] = IF qopen[k] THEN Append(@, packet) ELSE @]

\* The hosts a visitor may ask for: the registered ones and an unknown one.
VisitorHosts == DOMAIN hosts \cup {<<"-">>}

\* The visitor acceptor: resolve the host to a client; without one the
\* visitor is turned away, otherwise the stream is created and registered.
VisitorAccept(s, host) ==
    /\ st[s] = "none"
    /\ \A r \in StreamIds : r < s => st[r] # "none"
    /\ IF client_for_host(host) \in DOMAIN clients
       THEN LET client == clients[client_for_host(host)]
            IN  /\ streams' = [r \in DOMAIN streams \cup {s} |->
                                  IF r = s THEN ActiveStream(s, client)
                                  ELSE streams[r]]
                /\ owner' = [owner EXCEPT ![s] = client.tx]
                /\ st' = [st EXCEPT ![s] = "created"]
                /\ iopen' = [iopen EXCEPT ![s] = TRUE]
       ELSE /\ st' = [st EXCEPT ![s] = "done"]
            /\ UNCHANGED <<streams, owner, iopen>>
    /\ UNCHANGED <<hs, link, hello, reply, cid, sub, clients, hosts, reader,
                   tunnel, queue, qopen, wire, sent, pings, frames, removes,
                   adds, seen, raced, chunks, inq, tally>>

StreamInitWithoutInit(s) ==
    /\ st[s] = "created"
    /\ st' = [st EXCEPT ![s] = "open"]
    /\ UNCHANGED <<hs, link, hello, reply, cid, sub, clients, hosts, reader,
                   tunnel, queue, qopen, wire, sent, pings, frames, removes,
                   adds, seen, raced, streams, owner, chunks, inq, iopen,
                   tally>>

\* send_client_stream_init, lines 110-121: enqueue Init on the client's tx;
\* when the send fails, remove the client.
StreamInit(s) ==
    /\ st[s] = "created"
    /\ st' = [st EXCEPT ![s] = "open"]
    /\ Enqueue(owner[s], PktInit(s))
    /\ IF qopen[owner[s]]
       THEN UNCHANGED <<clients, hosts, qopen, removes>>
       ELSE RemoveClient(Client(owner[s]))
    /\ UNCHANGED <<hs, link, hello, reply, cid, sub, reader, tunnel, wire,
                   pings, frames, adds, seen, raced, streams, owner, chunks, inq, iopen,
                   tally>>

\* The visitor-to-tunnel pump reads a chunk and enqueues Data; when the send
\* fails it removes the client and the stream entry and ends.
VisitorRead(s) ==
    /\ st[s] = "open"
    /\ chunks' = [chunks EXCEPT ![s] = @ + 1]
    /\ Enqueue(owner[s], PktData(s, chunks[s] + 1))
    /\ IF qopen[owner[s]]
       THEN UNCHANGED <<clients, hosts, qopen, removes, streams, st>>
       ELSE /\ RemoveClient(Client(owner[s]))
            /\ streams' = [r \in DOMAIN streams \ {s} |-> streams[r]]
            /\ st' = [st EXCEPT ![s] = "done"]
    /\ UNCHANGED <<hs, link, hello, reply, cid, sub, reader, tunnel, wire,
                   pings, frames, adds, seen, raced, owner, inq, iopen,
                   tally>>

\* The visitor-to-tunnel pump reaches EOF or a read error: it enqueues End,
\* removes the stream entry and ends.
VisitorEof(s) ==
    /\ st[s] = "open"
    /\ Enqueue(owner[s], PktEnd(s))
    /\ IF qopen[owner[s]]
       THEN UNCHANGED <<clients, hosts, qopen, removes>>
       ELSE RemoveClient(Client(owner[s]))
    /\ streams' = [r \in DOMAIN streams \ {s} |-> streams[r]]
    /\ st' = [st EXCEPT ![s] = "done"]
    /\ UNCHANGED <<hs, link, hello, reply, cid, sub, reader, tunnel, wire,
                   pings, frames, adds, seen, raced, owner, chunks, inq, iopen,
                   tally>>

\* ------------------------------------------------- tunnel-to-visitor pump
controlVars == <<hs, link, hello, reply, cid, sub, clients, hosts, reader,
                 tunnel, queue, qopen, wire, sent, pings, frames, removes,
                 adds, seen, raced, tally>>

\* The tunnel-to-visitor pump dequeues a StreamMessage: Data is written to
\* the visitor socket; on TunnelRefused the canned refusal is written and the
\* pump ends, dropping the receiver of the inbound queue.
PumpDeliver(s) ==
    /\ iopen[s]
    /\ inq[s] # <<>>
    /\ IF Head(inq[s]).t = "Data"
       THEN /\ inq' = [inq EXCEPT ![s] = Tail(@)]
            /\ UNCHANGED iopen
       ELSE /\ inq' = [inq EXCEPT ![s] = <<>>]
            /\ iopen' = [iopen EXCEPT ![s] = FALSE]
    /\ UNCHANGED <<controlVars, streams, st, owner, chunks>>

\* The write to the visitor socket fails: the pump ends, dropping the
\* receiver with whatever the queue still held.
PumpAbort(s) ==
    /\ iopen[s]
    /\ inq' = [inq EXCEPT ![s] = <<>>]
    /\ iopen' = [iopen EXCEPT ![s] = FALSE]
    /\ UNCHANGED <<controlVars, streams, st, owner, chunks>>

\* The ended pump removes the stream entry.  A send on the stream's tx can
\* fail, so the receiver is gone before the entry is.
PumpRemove(s) ==
    /\ ~iopen[s]
    /\ s \in DOMAIN streams
    /\ streams' = [r \in DOMAIN streams \ {s} |-> streams[r]]
    /\ UNCHANGED <<controlVars, st, owner, chunks, inq, iopen>>

\* ----------------------------------------------------------- specification
Init ==
    /\ hs = [k \in Conns |-> "idle"]
    /\ link = [k \in Conns |-> "down"]
    /\ hello = [k \in Conns |-> NoHello]
    /\ reply = [k \in Conns |-> NoReply]
    /\ cid = [k \in Conns |-> "none"]
    /\ sub = [k \in Conns |-> <<>>]
    /\ clients = [i \in {} |-> 0]
    /\ hosts = [h \in {} |-> 0]
    /\ reader = [k \in Conns |-> "none"]
    /\ tunnel = [k \in Conns |-> "none"]
    /\ queue = [k \in Conns |-> <<>>]
    /\ qopen = [k \in Conns |-> FALSE]
    /\ wire = [k \in Conns |-> <<>>]
    /\ sent = [k \in Conns |-> <<>>]
    /\ pings = [k \in Conns |-> 0]
    /\ frames = [k \in Conns |-> 0]
    /\ removes = [k \in Conns |-> 0]
    /\ adds = <<>>
    /\ seen = [k \in Conns |-> 0]
    /\ raced = FALSE
    /\ streams = [s \in {} |-> 0]
    /\ st = [s \in StreamIds |-> "none"]
    /\ owner = [s \in StreamIds |-> 0]
    /\ chunks = [s \in StreamIds |-> 0]
    /\ inq = [s \in StreamIds |-> <<>>]
    /\ iopen = [s \in StreamIds |-> FALSE]
    /\ tally = [k \in Conns |-> Tally(0, 0, 0, 0)]

\* The server with `conns` control connections offering `offered` hellos and
\* up to MaxFrames frames each, and `nstreams` visitors of `nchunks` chunks.
Serve(conns, offered, nstreams, nchunks) ==
    \/ \E k \in conns : Connect(k)
    \/ \E k \in conns : LinkDrop(k)
    \/ \E k \in conns : ClientHelloArrives(k, offered)
    \/ \E k \in conns : ServerHelloWritten(k)
    \/ \E k \in conns, cause \in {"eof", "empty"} : ReaderEnd(k, cause)
    \/ \E k \in conns : \E f \in ClientFrames(k) :
          frames[k] < MaxFrames /\ ReaderFrame(k, f)
    \/ \E k \in conns : PingFire(k)
    \/ \E k \in conns : TunnelWrite(k)
    \/ \E k \in conns : TunnelClosed(k)
    \/ \E s \in 1..nstreams : \E host \in VisitorHosts : VisitorAccept(s, host)
    \/ \E s \in 1..nstreams : StreamInit(s)
    \/ \E s \in 1..nstreams : chunks[s] < nchunks /\ VisitorRead(s)
    \/ \E s \in 1..nstreams : VisitorEof(s)

\* Concurrent handshakes, reconnects and teardown.
Next == Serve(Conns, Hellos, RaceStreams, RaceChunks)

Spec == Init /\ [][Next]_vars

\* The handshake over every hello, with the teardown that frees subdomains.
NextHello ==
    \/ \E k \in Conns : Connect(k)
    \/ \E k \in Conns : LinkDrop(k)
    \/ \E k \in Conns : ClientHelloArrives(k, AllHellos)
    \/ \E k \in Conns : ServerHelloWritten(k)
    \/ \E k \in Conns, cause \in {"eof", "empty"} : ReaderEnd(k, cause)
    \/ \E k \in Conns : TunnelClosed(k)

SpecHello == Init /\ [][NextHello]_vars

\* One client's tunnel fed by several streams and pings.
TunnelHellos == {Hello(TRUE, "A", SomeStr(<<"a">>), FALSE)}

NextTunnel == Serve({1}, TunnelHellos, MaxStreams, MaxChunks)

SpecTunnel == Init /\ [][NextTunnel]_vars

\* A client reconnecting under one ClientId and subdomain, with its tasks
\* scheduled fairly: a task that can take its next step eventually takes it.
NextLive == Serve(Conns, TunnelHellos, RaceStreams, RaceChunks)

Fairness ==
    \A k \in Conns :
        /\ WF_vars(ReaderEnd(k, "eof"))
        /\ WF_vars(TunnelWrite(k))
        /\ WF_vars(TunnelClosed(k))

SpecLive == Init /\ [][NextLive]_vars /\ Fairness

\* Clients that ask for no subdomain, each under its own random one.
StreamHellos == {Hello(TRUE, id, NoneStr, FALSE) : id \in ClientIds}

\* One client answering the visitors of its streams: the reader, the tunnel
\* task and the tunnel-to-visitor pumps.
NextReader ==
    \/ Connect(1)
    \/ LinkDrop(1)
    \/ ClientHelloArrives(1, TunnelHellos)
    \/ ServerHelloWritten(1)
    \/ \E cause \in {"eof", "empty"} : ReaderEnd(1, cause)
    \/ \E f \in ClientFrames(1) : frames[1] < ReaderFrames /\ ReaderFrame(1, f)
    \/ TunnelWrite(1)
    \/ TunnelClosed(1)
    \/ \E s \in 1..MaxStreams : \E host \in VisitorHosts : VisitorAccept(s, host)
    \/ \E s \in 1..MaxStreams : StreamInit(s)
    \/ \E s \in 1..MaxStreams : VisitorEof(s)
    \/ \E s \in 1..MaxStreams : PumpDeliver(s)
    \/ \E s \in 1..MaxStreams : PumpAbort(s)
    \/ \E s \in 1..MaxStreams : PumpRemove(s)

SpecReader == Init /\ [][NextReader]_vars

\* The handshake with every step of the server scheduled fairly; whether and
\* when a client sends its hello is the client's choice.
NextWait ==
    \/ \E k \in Conns : Connect(k)
    \/ \E k \in Conns : LinkDrop(k)
    \/ \E k \in Conns : ClientHelloArrives(k, Hellos)
    \/ \E k \in Conns : ServerHelloWritten(k)
    \/ \E k \in Conns, cause \in {"eof", "empty"} : ReaderEnd(k, cause)
    \/ \E k \in Conns : TunnelClosed(k)

\* try_client_handshake, lines 40-46: websocket.next() returns None or an
\* error once the connection has ended
HandshakeReadEnds(k) == link[k] = "down" /\ ClientHelloArrives(k, Hellos)

FairWait ==
    \A k \in Conns :
        /\ WF_vars(HandshakeReadEnds(k))
        /\ WF_vars(ServerHelloWritten(k))
        /\ WF_vars(ReaderEnd(k, "eof"))
        /\ WF_vars(TunnelClosed(k))

SpecWait == Init /\ [][NextWait]_vars /\ FairWait

\* One client sending pings between the frames for a stream; the timer of a
\* delayed Ping task fires eventually.
NextPing ==
    \/ Connect(1)
    \/ LinkDrop(1)
    \/ ClientHelloArrives(1, TunnelHellos)
    \/ ServerHelloWritten(1)
    \/ \E cause \in {"eof", "empty"} : ReaderEnd(1, cause)
    \/ \E f \in ClientFrames(1) : frames[1] < ReaderFrames /\ ReaderFrame(1, f)
    \/ PingFire(1)
    \/ TunnelWrite(1)
    \/ TunnelClosed(1)
    \/ \E host \in VisitorHosts : VisitorAccept(1, host)
    \/ StreamInit(1)

SpecPing == Init /\ [][NextPing]_vars /\ WF_vars(PingFire(1))

\* Two clients under different subdomains, the visitors of one of them and
\* the frames the clients send.
NextShared ==
    \/ \E k \in Conns : Connect(k)
    \/ \E k \in Conns : LinkDrop(k)
    \/ \E k \in Conns : ClientHelloArrives(k, StreamHellos)
    \/ \E k \in Conns : ServerHelloWritten(k)
    \/ \E k \in Conns, cause \in {"eof", "empty"} : ReaderEnd(k, cause)
    \/ \E k \in Conns : \E f \in ClientFrames(k) :
          frames[k] < MaxFrames /\ ReaderFrame(k, f)
    \/ \E k \in Conns : TunnelWrite(k)
    \/ \E s \in 1..RaceStreams : \E host \in VisitorHosts : VisitorAccept(s, host)
    \/ \E s \in 1..RaceStreams : StreamInit(s)
    \/ \E s \in 1..RaceStreams : PumpDeliver(s)

SpecShared == Init /\ [][NextShared]_vars


\* ------------------------------------------------------------- properties
Range(f) == {f[x] : x \in DOMAIN f}

IsPrefix(p, q) == Len(p) <= Len(q) /\ SubSeq(q, 1, Len(p)) = p

\* the hello passed line 62: it carries a name without an invalid character
Legal(ch) == ch.ok /\ ch.sub.some /\ ~HasInvalidChar(ToLowercase(ch.sub.s))

Requested(ch) == ToLowercase(ch.sub.s)

\* the step on which try_client_handshake of connection k reads its hello
HelloRead(k) == hs[k] = "hello" /\ hs'[k] = "reply"

\* the reader and the tunnel task of connection k are both running
Live(k) == hs[k] = "connected" /\ reader[k] = "run" /\ tunnel[k] = "run"

\* C1: a verified non-anonymous hello for a subdomain that client_for_host
\* reports held by another ClientId is answered SubDomainInUse; that
\* handshake then returns None: nothing is added, no task is spawned, Success
\* is never written, and the registry (the incumbent's entry) is unchanged.
C1_SubDomainInUse ==
    [][\A k \in Conns :
        /\ ( /\ HelloRead(k)
             /\ Legal(hello'[k])
             /\ ~hello'[k].anon
             /\ client_for_host(Requested(hello'[k])) \notin {"none", hello'[k].id} )
           => reply'[k] = SubDomainInUse
        /\ (hs[k] = "reply" /\ reply[k] = SubDomainInUse /\ hs'[k] # "reply")
           => /\ hs'[k] = "closed"
              /\ clients' = clients
              /\ hosts' = hosts
              /\ reader'[k] = "none"
              /\ tunnel'[k] = "none"
              /\ \A i \in 1..Len(wire'[k]) : wire'[k][i].t # "Success"
      ]_vars

\* C1 witness: a handshake closed after SubDomainInUse while the incumbent
\* is still registered and running.
C1_Witness ==
    \E k, j \in Conns :
        /\ hs[k] = "closed"
        /\ wire[k] = <<SubDomainInUse>>
        /\ Live(j)
        /\ client_for_host(sub[j]) = cid[j]
        /\ cid[j] \in DOMAIN clients
        /\ clients[cid[j]].tx = j

\* C5: a verified non-anonymous hello whose ClientId is the one registered
\* for the requested subdomain is answered Success with that subdomain, and
\* after Connections::add the registry holds exactly one entry for that
\* ClientId, with the new connection's tx, and the subdomain maps to the id.
C5_Reconnect ==
    [][\A k \in Conns :
        /\ ( /\ HelloRead(k)
             /\ Legal(hello'[k])
             /\ ~hello'[k].anon
             /\ client_for_host(Requested(hello'[k])) = hello'[k].id )
           => reply'[k] = Success(Requested(hello'[k]))
        /\ ( /\ hs[k] = "reply"
             /\ hs'[k] # "reply"
             /\ reply[k].t = "Success"
             /\ link[k] = "up"
             /\ hello[k].sub.some
             /\ ~hello[k].anon
             /\ client_for_host(reply[k].sub) = hello[k].id )
           => /\ hs'[k] = "connected"
              /\ {c \in Range(clients') : c.id = hello[k].id}
                    = {ConnectedClient(hello[k].id, reply[k].sub, k)}
              /\ Cardinality({i \in DOMAIN clients' : i = hello[k].id}) = 1
              /\ hosts'[reply[k].sub] = hello[k].id
      ]_vars

\* C5 witness: connection k superseded connection j, which had the same
\* ClientId and subdomain and was never removed.
C5_Witness ==
    \E k, j \in Conns :
        /\ j # k
        /\ hs[j] = "connected" /\ hs[k] = "connected"
        /\ cid[j] = cid[k] /\ sub[j] = sub[k]
        /\ removes[j] = 0
        /\ adds = <<j, k>>
        /\ clients[cid[k]].tx = k

\* C6: a handshake that does not write ServerHello::Success successfully
\* returns None: both registries are unchanged by it and neither task of
\* that connection is ever spawned.
C6_FailedHandshake ==
    /\ [][\A k \in Conns :
            ( /\ hs[k] \in {"hello", "reply"}
              /\ hs'[k] \notin {"hello", "reply"}
              /\ ~( /\ hs[k] = "reply"
                    /\ reply[k].t = "Success"
                    /\ wire'[k] = Append(wire[k], reply[k]) ) )
            => /\ hs'[k] = "closed"
               /\ clients' = clients
               /\ hosts' = hosts
               /\ reader'[k] = "none"
               /\ tunnel'[k] = "none"
       ]_vars
    /\ [](\A k \in Conns :
            hs[k] = "closed"
            => /\ reader[k] = "none"
               /\ tunnel[k] = "none"
               /\ \A c \in Range(clients) : c.tx # k)

\* C6 witness: a handshake that failed on an invalid subdomain while another
\* client is registered.
C6_Witness ==
    \E k, j \in Conns :
        /\ hs[k] = "closed"
        /\ wire[k] = <<InvalidSubDomain>>
        /\ Live(j)
        /\ client_for_host(sub[j]) = cid[j]

\* the regular expression [a-z0-9]+ over the alphabet
MatchesLowerAlnumPlus(s) ==
    Len(s) > 0 /\ \A i \in 1..Len(s) : s[i] \in {"a", "z", "7"}

\* C7: for a verified hello carrying a subdomain, Success is answered only
\* if the lowercased request matches [a-z0-9]+, every other request is
\* answered InvalidSubDomain, and a non-anonymous Success carries the
\* lowercased request.
C7_LowerAlnumOnly ==
    \A k \in Conns :
        (hs[k] = "reply" /\ hello[k].ok /\ hello[k].sub.some)
        => /\ reply[k].t = "Success" => MatchesLowerAlnumPlus(Requested(hello[k]))
           /\ ~MatchesLowerAlnumPlus(Requested(hello[k]))
                 => reply[k] = InvalidSubDomain
           /\ (reply[k].t = "Success" /\ ~hello[k].anon)
                 => reply[k].sub = Requested(hello[k])

\* C8: for a verified anonymous hello with a legal subdomain r the answer
\* never depends on the registry: it is Success with r, "-" and a random
\* part, never r itself and never SubDomainInUse.
C8_AnonymousPrefixed ==
    \A k \in Conns :
        (hs[k] = "reply" /\ Legal(hello[k]) /\ hello[k].anon)
        => LET r == Requested(hello[k])
               name == reply[k].sub
           IN  /\ reply[k].t = "Success"
               /\ name # r
               /\ Len(name) = Len(r) + 2
               /\ SubSeq(name, 1, Len(r)) = r
               /\ name[Len(r) + 1] = "-"
               /\ name[Len(r) + 2] \in Range(RandomChars)

\* C8 witness: an anonymous hello asks for a name registered to another client.
C8_Witness ==
    \E k \in Conns :
        /\ hs[k] = "reply" /\ Legal(hello[k]) /\ hello[k].anon
        /\ Requested(hello[k]) # <<>>
        /\ client_for_host(Requested(hello[k])) \notin {"none", hello[k].id}

\* C9: on every control connection the first frame written is the only
\* ServerHello, packets follow it only when it is Success, and nothing
\* follows another ServerHello.
C9_ServerHelloFirst ==
    \A k \in Conns : \A i \in 1..Len(wire[k]) :
        /\ wire[k][i].t \in ServerHelloTags \cup PacketTags
        /\ wire[k][i].t \in ServerHelloTags <=> i = 1
        /\ i > 1 => wire[k][1].t = "Success"

\* C9 witness: Success and then packets were written on a connection.
C9_Witness ==
    \E k \in Conns :
        /\ Len(wire[k]) >= 3
        /\ wire[k][1].t = "Success"
        /\ wire[k][2].t = "Init"

\* the packets written on the websocket of connection k
Packets(k) == IF wire[k] = <<>> THEN <<>> ELSE Tail(wire[k])

\* the chunks of the Data packets of stream s in a sequence of packets
IsDataOf(s, p) == p.t = "Data" /\ p.s = s

ChunksOf(s, q) == LET sel(p) == IsDataOf(s, p)
                      data == SelectSeq(q, sel)
                  IN  [i \in 1..Len(data) |-> data[i].d]

\* C10: the packets tunnel_client has written are a prefix of the packets
\* the queue accepted, in the same order; while the task runs nothing is
\* lost (written, then queued, is what was accepted); so the Data packets of
\* each stream arrive in the order its pump read the chunks.
C10_QueueOrder ==
    \A k \in Conns :
        /\ IsPrefix(Packets(k), sent[k])
        /\ tunnel[k] = "run" => Packets(k) \o queue[k] = sent[k]
        /\ \A s \in StreamIds :
              ChunksOf(s, Packets(k)) = [i \in 1..Len(ChunksOf(s, Packets(k))) |-> i]

\* C10 witness: the Data packets of two streams were written interleaved.
C10_Witness ==
    \E k \in Conns : \E a, b, c \in 1..Len(wire[k]) :
        /\ a < b /\ b < c
        /\ wire[k][a] = PktData(1, 1)
        /\ wire[k][b] = PktData(2, 1)
        /\ wire[k][c] = PktData(1, 2)

\* C2: every connected client whose two tasks are running and whose link is
\* up is the one client_for_host finds for its subdomain; stated here for
\* the runs in which no handshake added its client after the registry it
\* had read grew.
C2_LiveClientResolvable ==
    \A k \in Conns :
        ( /\ Live(k)
          /\ link[k] = "up"
          /\ ~raced )
        => client_for_host(sub[k]) = cid[k]

\* Connections::client_for_host in the next state
client_for_host_next(host) ==
    IF host \in DOMAIN hosts' THEN hosts'[host] ELSE "none"

\* connection j was added after connection k
AddedAfter(j, k) ==
    \E a, b \in 1..Len(adds) : a < b /\ adds[a] = k /\ adds[b] = j

\* C4 as claimed: when the reader of c exits it has called remove(c), no
\* index names c, client_for_host(c.host) is none, and it stays none until a
\* handshake adds a client; the exited reader reads no further frame.  Stated
\* for the runs in which no handshake added its client after the registry it
\* had read grew.
C4_NoneAfterReaderExit ==
    [][\A k \in Conns :
        /\ (reader[k] = "run" /\ reader'[k] = "done" /\ ~raced)
           => /\ removes'[k] = 1
              /\ \A c \in Range(clients') : c.tx # k
              /\ client_for_host_next(sub[k]) = "none"
        /\ reader[k] = "done"
           => /\ reader'[k] = "done"
              /\ frames'[k] = frames[k]
              /\ (client_for_host(sub[k]) = "none" /\ adds' = adds)
                    => client_for_host_next(sub[k]) = "none"
      ]_vars

\* C4 amended: when the reader of c exits it has called remove(c) and reads
\* no further frame; from then on the client index holds no entry with c's
\* queue, and client_for_host(c.host) is none or the id of a client that a
\* handshake added after c, and changes only when a handshake adds a client.
C4_RemovedAfterReaderExit ==
    /\ [][\A k \in Conns :
            /\ (reader[k] = "run" /\ reader'[k] = "done") => removes'[k] = 1
            /\ reader[k] = "done"
               => /\ reader'[k] = "done"
                  /\ frames'[k] = frames[k]
                  /\ (client_for_host(sub[k]) = "none" /\ adds' = adds)
                        => client_for_host_next(sub[k]) = "none"
       ]_vars
    /\ [](\A k \in Conns :
            reader[k] = "done"
            => /\ \A c \in Range(clients) : c.tx # k
               /\ \/ client_for_host(sub[k]) = "none"
                  \/ \E j \in Conns :
                        /\ AddedAfter(j, k)
                        /\ sub[j] = sub[k]
                        /\ cid[j] = client_for_host(sub[k]))

\* C4 witness: the reader of c has exited while another ClientId, whose
\* handshake read the registry after c was removed, holds c's subdomain.
C4_Witness ==
    \E k \in Conns :
        /\ reader[k] = "done"
        /\ ~raced
        /\ client_for_host(sub[k]) \notin {"none", cid[k]}

\* C3: once the link of a connected client is down, both of its tasks
\* eventually exit.
C3_TasksExit ==
    \A k \in Conns :
        (hs[k] = "connected" /\ link[k] = "down")
        ~> (reader[k] = "done" /\ tunnel[k] = "done")

\* C3 witness: both tasks have exited after the link dropped, the tunnel
\* task by finding its queue closed and drained.
C3_Witness ==
    \E k \in Conns :
        /\ hs[k] = "connected" /\ link[k] = "down"
        /\ reader[k] = "done" /\ tunnel[k] = "done"
        /\ Len(wire[k]) >= 2

\* the packets about stream s: its Init, Data and End
About(s, p) == p.s = s /\ p.t \in {"Init", "Data", "End"}

\* C11: on every client's outbound queue, among the packets about one
\* stream s, Init(s) is the first one and only the first one (no Data or End
\* precedes it, it is enqueued at most once), End(s) is the last one, and
\* only the queue of the stream's client ever holds a packet about s.
C11_InitFirst ==
    \A k \in Conns, s \in StreamIds :
        LET about == {i \in 1..Len(sent[k]) : About(s, sent[k][i])}
        IN  /\ about # {} => owner[s] = k
            /\ \A i \in about :
                  /\ sent[k][i].t = "Init" <=> \A j \in about : i <= j
                  /\ sent[k][i].t = "End" => \A j \in about : j <= i

\* C11 witness: Init, Data and End of stream 1 were enqueued in this order,
\* with the Init of stream 2 between them.
C11_Witness ==
    \E k \in Conns : \E a, b, c, d \in 1..Len(sent[k]) :
        /\ a < b /\ b < c /\ c < d
        /\ sent[k][a] = PktInit(1)
        /\ sent[k][b] = PktInit(2)
        /\ sent[k][c] = PktData(1, 1)
        /\ sent[k][d] = PktEnd(1)

\* q is what is left of p after its first messages were taken
IsSuffix(q, p) ==
    Len(q) <= Len(p) /\ SubSeq(p, Len(p) - Len(q) + 1, Len(p)) = q

\* C12: the reader puts the StreamMessage of each Data or Refused frame at
\* the tail of the inbound queue of the stream the frame names, in the step
\* in which it reads the frame, and touches no other queue; every other step
\* only takes messages from the head.  So the messages in a stream's queue
\* stand in the order their frames were received: the Data messages carry
\* the numbers of their frames in increasing order.
C12_InboundOrder ==
    /\ [][\A k \in Conns : \A f \in ClientFrames(k) :
            ReaderFrame(k, f)
            => \A s \in StreamIds :
                  \/ inq'[s] = inq[s]
                  \/ /\ Dispatched(f)
                     /\ f.s = s
                     /\ inq'[s] = Append(inq[s], StreamMessage(f))
       ]_vars
    /\ [][\A s \in StreamIds :
            frames' = frames => IsSuffix(inq'[s], inq[s])
       ]_vars
    /\ [](\A s \in StreamIds : \A i, j \in 1..Len(inq[s]) :
            (i < j /\ inq[s][i].t = "Data" /\ inq[s][j].t = "Data")
            => inq[s][i].d < inq[s][j].d)

\* C12 witness: the first and the third frame of the client wait in the
\* queue of stream 1 in that order, the second in the queue of stream 2.
C12_Witness ==
    /\ inq[1] = <<StreamMessage(PktData(1, 1)), StreamMessage(PktData(1, 3))>>
    /\ inq[2] = <<StreamMessage(PktData(2, 2))>>

\* the Pings the outbound queue of connection k has accepted
PingsSent(k) == Cardinality({i \in 1..Len(sent[k]) : sent[k][i] = PktPing})

\* C13: the step that reads a Ping frame enqueues nothing and leaves the
\* reader running with one more timer pending; a Ping enters the queue only
\* when a timer fires, one per timer; while the queue is open the Pings
\* accepted and the timers pending add up to the Ping frames read; and each
\* Ping frame of a client whose queue stays open is eventually answered.
C13_PingEchoed ==
    /\ [][\A k \in Conns :
            /\ ReaderFrame(k, PktPing)
               => /\ sent'[k] = sent[k]
                  /\ queue'[k] = queue[k]
                  /\ pings'[k] = pings[k] + 1
                  /\ reader'[k] = "run"
            /\ PingsSent(k)' # PingsSent(k)
               => /\ pings'[k] = pings[k] - 1
                  /\ sent'[k] = Append(sent[k], PktPing)
            /\ (pings'[k] < pings[k] /\ qopen[k])
               => sent'[k] = Append(sent[k], PktPing)
       ]_vars
    /\ [](\A k \in Conns :
            qopen[k] => tally[k].ping = pings[k] + PingsSent(k))
    /\ \A k \in Conns : \A n \in 1..ReaderFrames :
          (tally[k].ping >= n) ~> (PingsSent(k) >= n \/ ~qopen[k])

\* C13 witness: of two Ping frames one is answered and the timer of the
\* other is pending while the frame read after them has reached its stream.
C13_Witness ==
    \E k \in Conns :
        /\ qopen[k]
        /\ tally[k].ping = 2
        /\ PingsSent(k) = 1
        /\ pings[k] = 1
        /\ inq[1] = <<StreamMessage(PktData(1, 3))>>

\* C14: a handshake waiting for its first frame eventually stops waiting:
\* the frame is read, or try_client_handshake returns None with no
\* ServerHello written.
C14_HandshakeTimesOut ==
    \A k \in Conns :
        (hs[k] = "hello") ~> (hs[k] = "reply" \/ (hs[k] = "closed" /\ wire[k] = <<>>))

\* the client of connection k is the registered one of its ClientId
Registered(k) == cid[k] \in DOMAIN clients /\ clients[cid[k]].tx = k

\* C15: the step in which the reader takes a frame that does not decode, or
\* an Init or End packet, calls no Connections::remove, enqueues nothing on
\* any stream's queue or on the client's outbound queue, schedules no Ping,
\* leaves both registries as they were and leaves the reader running.
C15_BadFrameTolerated ==
    [][\A k \in Conns : \A f \in ClientFrames(k) :
        (ReaderFrame(k, f) /\ f.t \in {"garbage", "Init", "End"})
        => /\ removes' = removes
           /\ clients' = clients
           /\ hosts' = hosts
           /\ streams' = streams
           /\ inq' = inq
           /\ queue' = queue
           /\ sent' = sent
           /\ qopen' = qopen
           /\ pings' = pings
           /\ reader'[k] = "run"
           /\ tally'[k].skip = tally[k].skip + 1
      ]_vars

\* C15 witness: the reader skipped two frames and then delivered the third
\* to its stream, the client still registered.
C15_Witness ==
    \E k \in Conns :
        /\ tally[k].skip = 2
        /\ inq[1] = <<StreamMessage(PktData(1, 3))>>
        /\ Registered(k)
        /\ reader[k] = "run"

\* C16: the step in which the reader takes a Data or Refused frame whose
\* stream_id is not in ACTIVE_STREAMS, or whose stream's queue has lost its
\* receiver, changes no stream's queue, neither registry and nothing of the
\* client, and leaves the reader running.
C16_StreamGone ==
    [][\A k \in Conns : \A f \in ClientFrames(k) :
        ( /\ ReaderFrame(k, f)
          /\ f.t \in {"Data", "Refused"}
          /\ (f.s \notin DOMAIN streams \/ ~iopen[streams[f.s].tx]) )
        => /\ inq' = inq
           /\ removes' = removes
           /\ clients' = clients
           /\ hosts' = hosts
           /\ streams' = streams
           /\ queue' = queue
           /\ sent' = sent
           /\ qopen' = qopen
           /\ reader'[k] = "run"
           /\ tally'[k].miss + tally'[k].fail = tally[k].miss + tally[k].fail + 1
      ]_vars

\* C16 witness: one frame named a stream that was not registered, one failed
\* on the closed queue of a registered stream, and the client is still
\* registered with its reader running.
C16_Witness ==
    \E k \in Conns :
        /\ tally[k].miss = 1
        /\ tally[k].fail = 1
        /\ \E s \in DOMAIN streams : ~iopen[s]
        /\ Registered(k)
        /\ reader[k] = "run"

\* C17: when the send of Init fails in send_client_stream_init, the client
\* is removed from the client registry and the stream is aborted: its entry
\* leaves the stream registry in that step, and no packet about the stream
\* is ever accepted by the client's queue.
C17_InitFailureAborts ==
    /\ [][\A s \in StreamIds :
            (StreamInit(s) /\ ~qopen[owner[s]])
            => /\ \A c \in Range(clients') : c.tx # owner[s]
               /\ cid[owner[s]] \notin DOMAIN clients'
               /\ s \notin DOMAIN streams'
       ]_vars
    /\ [](\A s \in StreamIds : \A k \in Conns :
            (st[s] \in {"open", "done"} /\ PktInit(s) \notin Range(sent[k]))
            => \A i \in 1..Len(sent[k]) : ~About(s, sent[k][i]))

\* C18: a delayed Ping task that fires after the client's link dropped adds
\* nothing to the queue, and the tunnel task, finding such a Ping, changes
\* neither index of the client registry.
C18_LatePingRejected ==
    [][\A k \in Conns :
        /\ (link[k] = "down" /\ PingFire(k))
           => /\ sent'[k] = sent[k]
              /\ queue'[k] = queue[k]
        /\ ( /\ link[k] = "down"
             /\ queue[k] # <<>>
             /\ Head(queue[k]) = PktPing
             /\ TunnelWrite(k) )
           => /\ clients' = clients
              /\ hosts' = hosts
      ]_vars

\* C19: two connections of different ClientIds never both hold Success for
\* one subdomain while both are up and neither client was removed; and when
\* a non-anonymous handshake adds its client, the subdomain is still free or
\* held by its own ClientId, as it was when the handshake checked.
C19_NoDoubleSuccess ==
    /\ [](\A j, k \in Conns :
            ~( /\ j # k
               /\ hs[j] = "connected" /\ hs[k] = "connected"
               /\ link[j] = "up" /\ link[k] = "up"
               /\ removes[j] = 0 /\ removes[k] = 0
               /\ cid[j] # cid[k]
               /\ sub[j] = sub[k] ))
    /\ [][\A k \in Conns :
            ( /\ hs[k] = "reply"
              /\ hs'[k] = "connected"
              /\ hello[k].sub.some
              /\ ~hello[k].anon )
            => client_for_host(reply[k].sub) \in {"none", hello[k].id}
       ]_vars

\* C20: the step in which the reader of client A takes a frame changes the
\* inbound queue of no stream but one created for the ClientId of A.
C20_OwnStreamsOnly ==
    [][\A k \in Conns : \A f \in ClientFrames(k) :
        ReaderFrame(k, f)
        => \A s \in StreamIds :
              inq'[s] # inq[s]
              => /\ s \in DOMAIN streams
                 /\ streams[s].client.id = cid[k]
      ]_vars

====
